---- MODULE Spec2Model ----
(***************************************************************************)
(* Vault token auto-renewal of sops-secrets-operator.                       *)
(*                                                                         *)
(* The model follows controllers.VaultAuth (authenticate, writeToken,      *)
(* StartAutoRenew, autoRenewal) and the part of main() that launches it.   *)
(* The supervisor goroutine is a program counter `pc`; the Vault server,   *)
(* the file system, the lifetime watcher's goroutine, the clock and the    *)
(* stop signal are the environment.                                        *)
(*                                                                         *)
(* Time is counted in whole seconds of the backoff pause.                  *)
(***************************************************************************)
EXTENDS Integers, FiniteSets, Sequences, TLC

(* ---------------------------------------------------------------------- *)
(* Bounds and program constants                                           *)
(* ---------------------------------------------------------------------- *)

\* how many times autoRenewal may be entered in one behaviour
MaxAttempts == 2

\* how many renewal notifications may sit unread in RenewCh
MaxRenewPending == 1

\* time.After(30 * time.Second)
BackoffSeconds == 30

\* -- values ---------------------------------------------------------------

NoSecret == 0

\* a parsed secret whose Auth section is absent (secret.Auth == nil)
NoAuthSecret == -1

\* content of the token file after a write that failed part-way
Truncated == -2

JWTMissing == "missing"

JWTValues == {"jwtA", "jwtB"}

FlagValues == {"", "set"}

AuthErrors == {"Transport", "RemoteRejected", "MalformedResponse"}

LogAuthFailed == "could not authenticate with vault"

LogWriteFailed == "could not write auth token"

LogTokenUpdated == "vault token updated"

LogRenewFailed == "could not renew vault token"

LogRenewed == "vault token renewed"

ErrorLogs == {LogAuthFailed, LogWriteFailed, LogRenewFailed}

VARIABLES
    pc,            \* position of main / the StartAutoRenew goroutine
    proc,          \* the process: running / exit1 (os.Exit(1)) / returned
    cfg,           \* the four vault flags of main
    cancelled,     \* ctx.Done() is closed
    observed,      \* the supervisor took a <-ctx.Done() branch
    jwtFile,       \* content of auth.jwtPath (JWTMissing: unreadable)
    reqJWT,        \* JWT carried by the last authentication request
    initial,       \* the secret returned by authenticate in this cycle
    lastCred,      \* client token of the most recent successful authenticate
    tokenFile,     \* content of ~/.vault-token
    attempts,      \* calls of autoRenewal
    remoteCalls,   \* authentication requests sent
    writes,        \* ioutil.WriteFile calls on the token file
    lastLog,       \* last message given to vaultLog
    cycle,         \* how the last autoRenewal call returned: none / ok / err
    cycleErr,      \* the stage whose error ended the last call
    pauses,        \* completed 30 s pauses since the last autoRenewal return
    timer,         \* seconds spent in the current backoff select
    wTask,         \* goroutine of the current watcher: none / running / finished
    wStopped,      \* Stop() was called on the current watcher
    doneCh,        \* watcher.DoneCh(): empty / nil / err / read
    renewCh,       \* notifications pending in watcher.RenewCh()
    activeTasks,   \* watcher goroutines started and not yet finished
    wStarted,      \* watchers started
    wStopCalls,    \* watchers on which Stop() was called
    atCancel       \* snapshot taken when the stop signal fired

vars == << pc, proc, cfg, cancelled, observed, jwtFile, reqJWT, initial, lastCred,
           tokenFile, attempts, remoteCalls, writes, lastLog, cycle, cycleErr,
           pauses, timer, wTask, wStopped, doneCh, renewCh,
           activeTasks, wStarted, wStopCalls, atCancel >>

\* groups used in UNCHANGED
envVars == << cfg, jwtFile >>

cancelVars == << cancelled, atCancel >>

authVars == << reqJWT, initial, lastCred, remoteCalls >>

fileVars == << tokenFile, writes >>

cycleVars == << cycle, cycleErr, pauses, timer >>

watcherVars == << wTask, wStopped, doneCh, renewCh, activeTasks, wStarted,
                  wStopCalls >>

NoSnapshot == [fired |-> FALSE, pc |-> "none", attempts |-> 0,
               remoteCalls |-> 0, writes |-> 0, timer |-> 0]

Init ==
    /\ pc = "main"
    /\ proc = "running"
    /\ cfg \in [role : FlagValues, server : FlagValues,
                tokenPath : FlagValues, auth : FlagValues]
    /\ cancelled = FALSE
    /\ observed = FALSE
    /\ jwtFile \in JWTValues \cup {JWTMissing}
    /\ reqJWT = JWTMissing
    /\ initial = NoSecret
    /\ lastCred = NoSecret
    /\ tokenFile = NoSecret
    /\ attempts = 0
    /\ remoteCalls = 0
    /\ writes = 0
    /\ lastLog = "none"
    /\ cycle = "none"
    /\ cycleErr = "none"
    /\ pauses = 0
    /\ timer = 0
    /\ wTask = "none"
    /\ wStopped = FALSE
    /\ doneCh = "empty"
    /\ renewCh = 0
    /\ activeTasks = 0
    /\ wStarted = 0
    /\ wStopCalls = 0
    /\ atCancel = NoSnapshot

\* the process runs: main has neither returned nor called os.Exit, and no
\* goroutine has panicked. When the process ends every goroutine is cut off
\* where it stands: no further step, no deferred call
ProcessAlive == proc = "running" /\ pc \notin {"exited", "panicked"}

(* ---------------------------------------------------------------------- *)
(* main(): launching the authenticator                                    *)
(* ---------------------------------------------------------------------- *)

\* the four tests joined by || instead of &&
VaultConfigured_AnyFlag(c) ==
    \/ c.role # ""
    \/ c.server # ""
    \/ c.tokenPath # ""
    \/ c.auth # ""

\* if len(vaultRole) > 0 && len(vaultServer) > 0 && len(vaultTokenPath) > 0
\*    && len(vaultAuth) > 0
VaultConfigured(c) ==
    /\ c.role # ""
    /\ c.server # ""
    /\ c.tokenPath # ""
    /\ c.auth # ""

\* CreateVaultAuth succeeded: go vault.StartAutoRenew(stopCh);
\* it failed: os.Exit(1)
Main_Start ==
    /\ ProcessAlive
    /\ pc = "main"
    /\ VaultConfigured(cfg)
    /\ \E created \in BOOLEAN :
          /\ pc' = IF created THEN "loop" ELSE "exited"
          /\ proc' = IF created THEN proc ELSE "exit1"
    /\ UNCHANGED << envVars, cancelVars, observed, authVars, fileVars,
                    attempts, lastLog, cycleVars, watcherVars >>

Main_Skip ==
    /\ ProcessAlive
    /\ pc = "main"
    /\ ~VaultConfigured(cfg)
    /\ pc' = "not_started"
    /\ UNCHANGED << envVars, cancelVars, proc, observed, authVars, fileVars,
                    attempts, lastLog, cycleVars, watcherVars >>

\* if err := mgr.Start(stopCh); err != nil { ...; os.Exit(1) }, and the end
\* of main after it. The manager can fail at any time (os.Exit(1)); it
\* returns nil only once stopCh is closed, and then main returns. Either way
\* the process ends while the goroutines of StartAutoRenew and of the
\* watcher are wherever they are; main does not wait for them
Main_ManagerStops ==
    /\ ProcessAlive
    /\ pc # "main"
    /\ \E failed \in BOOLEAN :
          /\ ~failed => cancelled
          /\ proc' = IF failed THEN "exit1" ELSE "returned"
    /\ UNCHANGED << pc, envVars, cancelVars, observed, authVars, fileVars,
                    attempts, lastLog, cycleVars, watcherVars >>

(* ---------------------------------------------------------------------- *)
(* StartAutoRenew: what follows a return of autoRenewal                   *)
(* ---------------------------------------------------------------------- *)

\* the test of err inverted
PostCyclePc_Inverted(err) == IF err THEN "sel_ok" ELSE "backoff"

\* if err == nil { select with default } else { select with time.After }
PostCyclePc(err) == IF err THEN "backoff" ELSE "sel_ok"

\* autoRenewal returns to StartAutoRenew, which enters one of its selects;
\* time.After starts a fresh 30 s timer
ReturnFromCycle(err, stage) ==
    /\ pc' = PostCyclePc(err)
    /\ cycle' = IF err THEN "err" ELSE "ok"
    /\ cycleErr' = stage
    /\ pauses' = 0
    /\ timer' = 0

\* case <-ctx.Done(): return  (a ready case wins over default)
SelectOk_CtxDone ==
    /\ ProcessAlive
    /\ pc = "sel_ok"
    /\ cancelled
    /\ pc' = "done"
    /\ observed' = TRUE
    /\ UNCHANGED << envVars, cancelVars, proc, authVars, fileVars, attempts,
                    lastLog, cycleVars, watcherVars >>

\* default taken without looking at ctx.Done()
SelectOk_Default_NoCtxCheck ==
    /\ ProcessAlive
    /\ pc = "sel_ok"
    /\ pc' = "loop"
    /\ UNCHANGED << envVars, cancelVars, proc, observed, authVars, fileVars,
                    attempts, lastLog, cycleVars, watcherVars >>

\* default: continue
SelectOk_Default ==
    /\ ProcessAlive
    /\ pc = "sel_ok"
    /\ ~cancelled
    /\ pc' = "loop"
    /\ UNCHANGED << envVars, cancelVars, proc, observed, authVars, fileVars,
                    attempts, lastLog, cycleVars, watcherVars >>

\* case <-ctx.Done(): return
Backoff_CtxDone ==
    /\ ProcessAlive
    /\ pc = "backoff"
    /\ cancelled
    /\ pc' = "done"
    /\ observed' = TRUE
    /\ UNCHANGED << envVars, cancelVars, proc, authVars, fileVars, attempts,
                    lastLog, cycleVars, watcherVars >>

\* a timer that is ready at once
TimerFired_AtOnce(t) == t >= 0

\* the timer of time.After has fired
TimerFired(t) == t >= BackoffSeconds

\* case <-time.After(30 * time.Second): continue
Backoff_Timer ==
    /\ ProcessAlive
    /\ pc = "backoff"
    /\ TimerFired(timer)
    /\ pc' = "loop"
    /\ pauses' = pauses + 1
    /\ UNCHANGED << envVars, cancelVars, proc, observed, authVars, fileVars,
                    attempts, lastLog, cycle, cycleErr, timer,
                    watcherVars >>

(* ---------------------------------------------------------------------- *)
(* autoRenewal: authenticate                                              *)
(* ---------------------------------------------------------------------- *)

\* the JWT read once and kept for every later request
AutoRenewal_ReadJWT_CachedJWT ==
    /\ ProcessAlive
    /\ pc = "loop"
    /\ attempts < MaxAttempts
    /\ attempts' = attempts + 1
    /\ initial' = NoSecret
    /\ IF jwtFile = JWTMissing /\ reqJWT = JWTMissing
         THEN /\ lastLog' = LogAuthFailed
              /\ ReturnFromCycle(TRUE, "auth")
              /\ UNCHANGED << reqJWT, remoteCalls >>
         ELSE /\ pc' = "auth_call"
              /\ reqJWT' = IF reqJWT = JWTMissing THEN jwtFile ELSE reqJWT
              /\ remoteCalls' = remoteCalls + 1
              /\ UNCHANGED << lastLog, cycleVars >>
    /\ UNCHANGED << envVars, cancelVars, proc, observed, lastCred, fileVars,
                    watcherVars >>

\* the error of ioutil.ReadFile ignored: the request goes out all the same
AutoRenewal_ReadJWT_IgnoreReadError ==
    /\ ProcessAlive
    /\ pc = "loop"
    /\ attempts < MaxAttempts
    /\ attempts' = attempts + 1
    /\ initial' = NoSecret
    /\ pc' = "auth_call"
    /\ reqJWT' = jwtFile
    /\ remoteCalls' = remoteCalls + 1
    /\ UNCHANGED << envVars, cancelVars, proc, observed, lastCred, fileVars,
                    lastLog, cycleVars, watcherVars >>

\* err := auth.autoRenewal(ctx); authenticate reads the JWT and, when it is
\* readable, sends the login request
AutoRenewal_ReadJWT ==
    /\ ProcessAlive
    /\ pc = "loop"
    /\ attempts < MaxAttempts
    /\ attempts' = attempts + 1
    /\ initial' = NoSecret
    /\ IF jwtFile = JWTMissing
         THEN /\ lastLog' = LogAuthFailed
              /\ ReturnFromCycle(TRUE, "auth")
              /\ UNCHANGED << reqJWT, remoteCalls >>
         ELSE /\ pc' = "auth_call"
              /\ reqJWT' = jwtFile
              /\ remoteCalls' = remoteCalls + 1
              /\ UNCHANGED << lastLog, cycleVars >>
    /\ UNCHANGED << envVars, cancelVars, proc, observed, lastCred, fileVars,
                    watcherVars >>

\* the error of authenticate ignored
AfterAuthenticate_IgnoreError(failed) == "write"

\* where autoRenewal goes once authenticate has returned
AfterAuthenticate(failed) == IF failed THEN "return" ELSE "write"

\* RawRequest / response.Error / ParseSecret return
Authenticate_Return ==
    /\ ProcessAlive
    /\ pc = "auth_call"
    /\ \E out \in AuthErrors \cup {"ok", "noauth"} :
          LET failed == out \in AuthErrors
              secret == IF failed THEN NoSecret
                        ELSE IF out = "ok" THEN attempts ELSE NoAuthSecret
          IN  /\ initial' = secret
              /\ lastCred' = IF out = "ok" THEN attempts ELSE lastCred
              /\ IF AfterAuthenticate(failed) = "return"
                   THEN /\ lastLog' = LogAuthFailed
                        /\ ReturnFromCycle(TRUE, "auth")
                   ELSE /\ pc' = "write"
                        /\ UNCHANGED << lastLog, cycleVars >>
    /\ UNCHANGED << envVars, cancelVars, proc, observed, reqJWT, remoteCalls,
                    fileVars, attempts, watcherVars >>

(* ---------------------------------------------------------------------- *)
(* autoRenewal: writeToken                                                *)
(* ---------------------------------------------------------------------- *)

\* homedir.Dir(), then []byte(secret.Auth.ClientToken): a secret without an
\* Auth section is a nil dereference, which ends the process
WriteToken_Begin ==
    /\ ProcessAlive
    /\ pc = "write"
    /\ \E home \in BOOLEAN :
          IF ~home
            THEN /\ lastLog' = LogWriteFailed
                 /\ ReturnFromCycle(TRUE, "write")
                 /\ UNCHANGED writes
            ELSE IF initial = NoAuthSecret
            THEN /\ pc' = "panicked"
                 /\ UNCHANGED << lastLog, cycleVars, writes >>
            ELSE /\ pc' = "writing"
                 /\ writes' = writes + 1
                 /\ UNCHANGED << lastLog, cycleVars >>
    /\ UNCHANGED << envVars, cancelVars, proc, observed, authVars, tokenFile,
                    attempts, watcherVars >>

\* the token written somewhere else: the file keeps what it had
FileAfterWrite_WrongTarget(old, secret, out) == old

\* what ioutil.WriteFile leaves in the file
FileAfterWrite(old, secret, out) ==
    CASE out = "ok"      -> secret
      [] out = "failed"  -> old
      [] out = "partial" -> Truncated

\* the error of writeToken ignored
AfterWriteToken_IgnoreError(failed) == "new_watcher"

\* where autoRenewal goes once writeToken has returned
AfterWriteToken(failed) == IF failed THEN "return" ELSE "new_watcher"

\* a write error logged but nil returned to StartAutoRenew
WriteToken_End_ReturnsNil ==
    /\ ProcessAlive
    /\ pc = "writing"
    /\ \E out \in {"ok", "failed", "partial"} :
          /\ tokenFile' = FileAfterWrite(tokenFile, initial, out)
          /\ IF out # "ok"
               THEN /\ lastLog' = LogWriteFailed
                    /\ ReturnFromCycle(FALSE, "write")
               ELSE /\ lastLog' = LogTokenUpdated
                    /\ pc' = "new_watcher"
                    /\ UNCHANGED cycleVars
    /\ UNCHANGED << envVars, cancelVars, proc, observed, authVars, writes,
                    attempts, watcherVars >>

\* ioutil.WriteFile returns
WriteToken_End ==
    /\ ProcessAlive
    /\ pc = "writing"
    /\ \E out \in {"ok", "failed", "partial"} :
          /\ tokenFile' = FileAfterWrite(tokenFile, initial, out)
          /\ IF AfterWriteToken(out # "ok") = "return"
               THEN /\ lastLog' = LogWriteFailed
                    /\ ReturnFromCycle(TRUE, "write")
               ELSE /\ lastLog' = LogTokenUpdated
                    /\ pc' = "new_watcher"
                    /\ UNCHANGED cycleVars
    /\ UNCHANGED << envVars, cancelVars, proc, observed, authVars, writes,
                    attempts, watcherVars >>

(* ---------------------------------------------------------------------- *)
(* autoRenewal: the lifetime watcher                                      *)
(* ---------------------------------------------------------------------- *)

\* the error of NewLifetimeWatcher swallowed: autoRenewal returns nil
NewLifetimeWatcher_ErrorSwallowed ==
    /\ ProcessAlive
    /\ pc = "new_watcher"
    /\ \E created \in BOOLEAN :
          IF created
            THEN /\ pc' = "watching"
                 /\ wTask' = "running"
                 /\ wStopped' = FALSE
                 /\ doneCh' = "empty"
                 /\ renewCh' = 0
                 /\ activeTasks' = activeTasks + 1
                 /\ wStarted' = wStarted + 1
                 /\ UNCHANGED << wStopCalls, cycleVars >>
            ELSE /\ ReturnFromCycle(FALSE, "watcher")
                 /\ UNCHANGED watcherVars
    /\ UNCHANGED << envVars, cancelVars, proc, observed, authVars, fileVars,
                    attempts, lastLog >>

\* watcher, err := auth.client.NewLifetimeWatcher(...): on an error
\* autoRenewal returns it without logging; otherwise go watcher.Start(),
\* defer watcher.Stop() and the select loop is entered
NewLifetimeWatcher ==
    /\ ProcessAlive
    /\ pc = "new_watcher"
    /\ \E created \in BOOLEAN :
          IF created
            THEN /\ pc' = "watching"
                 /\ wTask' = "running"
                 /\ wStopped' = FALSE
                 /\ doneCh' = "empty"
                 /\ renewCh' = 0
                 /\ activeTasks' = activeTasks + 1
                 /\ wStarted' = wStarted + 1
                 /\ UNCHANGED << wStopCalls, cycleVars >>
            ELSE /\ ReturnFromCycle(TRUE, "watcher")
                 /\ UNCHANGED watcherVars
    /\ UNCHANGED << envVars, cancelVars, proc, observed, authVars, fileVars,
                    attempts, lastLog >>

\* defer watcher.Stop(): runs on every return that follows the defer
DeferredStop ==
    /\ wStopped' = TRUE
    /\ wStopCalls' = wStopCalls + 1

\* cancellation looked at only once the watcher has ended by itself
Watch_CtxDone_AfterWatcherEnds ==
    /\ ProcessAlive
    /\ pc = "watching"
    /\ cancelled
    /\ wTask = "finished"
    /\ observed' = TRUE
    /\ DeferredStop
    /\ ReturnFromCycle(FALSE, "none")
    /\ UNCHANGED << envVars, cancelVars, proc, authVars, fileVars, attempts,
                    lastLog, wTask, doneCh, renewCh,
                    activeTasks, wStarted >>

\* case <-ctx.Done(): return nil
Watch_CtxDone ==
    /\ ProcessAlive
    /\ pc = "watching"
    /\ cancelled
    /\ observed' = TRUE
    /\ DeferredStop
    /\ ReturnFromCycle(FALSE, "none")
    /\ UNCHANGED << envVars, cancelVars, proc, authVars, fileVars, attempts,
                    lastLog, wTask, doneCh, renewCh,
                    activeTasks, wStarted >>

\* the select loop entered again after the terminal notification
Watch_Done_KeepsWatching ==
    /\ ProcessAlive
    /\ pc = "watching"
    /\ doneCh \in {"nil", "err"}
    /\ doneCh' = "read"
    /\ lastLog' = IF doneCh = "err" THEN LogRenewFailed ELSE lastLog
    /\ UNCHANGED << pc, envVars, cancelVars, proc, observed, authVars, fileVars,
                    attempts, cycleVars, wTask, wStopped, renewCh,
                    activeTasks, wStarted, wStopCalls >>

\* watcher.Stop() called on the cancellation path only
Watch_Done_NoStop ==
    /\ ProcessAlive
    /\ pc = "watching"
    /\ doneCh \in {"nil", "err"}
    /\ doneCh' = "read"
    /\ lastLog' = IF doneCh = "err" THEN LogRenewFailed ELSE lastLog
    /\ ReturnFromCycle(doneCh = "err", IF doneCh = "err" THEN "renew" ELSE "none")
    /\ UNCHANGED << envVars, cancelVars, proc, observed, authVars, fileVars,
                    attempts, wTask, wStopped, renewCh, activeTasks,
                    wStarted, wStopCalls >>

\* case err = <-watcher.DoneCh(): log when err != nil; return err
Watch_Done ==
    /\ ProcessAlive
    /\ pc = "watching"
    /\ doneCh \in {"nil", "err"}
    /\ doneCh' = "read"
    /\ lastLog' = IF doneCh = "err" THEN LogRenewFailed ELSE lastLog
    /\ DeferredStop
    /\ ReturnFromCycle(doneCh = "err", IF doneCh = "err" THEN "renew" ELSE "none")
    /\ UNCHANGED << envVars, cancelVars, proc, observed, authVars, fileVars,
                    attempts, wTask, renewCh, activeTasks,
                    wStarted >>

\* the token written again on every renewal
Watch_Renew_RewritesToken ==
    /\ ProcessAlive
    /\ pc = "watching"
    /\ renewCh > 0
    /\ renewCh' = renewCh - 1
    /\ lastLog' = LogRenewed
    /\ writes' = writes + 1
    /\ tokenFile' = initial
    /\ UNCHANGED << pc, envVars, cancelVars, proc, observed, authVars,
                    attempts, cycleVars, wTask, wStopped,
                    doneCh, activeTasks, wStarted, wStopCalls >>

\* a renewal notification taken for the end of the watch
Watch_Renew_Returns ==
    /\ ProcessAlive
    /\ pc = "watching"
    /\ renewCh > 0
    /\ renewCh' = renewCh - 1
    /\ lastLog' = LogRenewed
    /\ DeferredStop
    /\ ReturnFromCycle(FALSE, "none")
    /\ UNCHANGED << envVars, cancelVars, proc, observed, authVars, fileVars,
                    attempts, wTask, doneCh, activeTasks, wStarted >>

\* case <-watcher.RenewCh(): log and stay in the loop
Watch_Renew ==
    /\ ProcessAlive
    /\ pc = "watching"
    /\ renewCh > 0
    /\ renewCh' = renewCh - 1
    /\ lastLog' = LogRenewed
    /\ UNCHANGED << pc, envVars, cancelVars, proc, observed, authVars, fileVars,
                    attempts, cycleVars, wTask, wStopped,
                    doneCh, activeTasks, wStarted, wStopCalls >>

(* ---------------------------------------------------------------------- *)
(* Environment                                                            *)
(* ---------------------------------------------------------------------- *)

\* the goroutine of watcher.Start() renewed the lease
Watcher_Renewed ==
    /\ ProcessAlive
    /\ wTask = "running"
    /\ renewCh < MaxRenewPending
    /\ renewCh' = renewCh + 1
    /\ UNCHANGED << pc, envVars, cancelVars, proc, observed, authVars, fileVars,
                    attempts, lastLog, cycleVars, wTask,
                    wStopped, doneCh, activeTasks, wStarted, wStopCalls >>

\* the goroutine of watcher.Start() sends its result on DoneCh and ends
Watcher_Finish ==
    /\ ProcessAlive
    /\ wTask = "running"
    /\ \E e \in {"nil", "err"} : doneCh' = e
    /\ wTask' = "finished"
    /\ activeTasks' = activeTasks - 1
    /\ UNCHANGED << pc, envVars, cancelVars, proc, observed, authVars, fileVars,
                    attempts, lastLog, cycleVars, wStopped,
                    renewCh, wStarted, wStopCalls >>

\* stopCh := ctrl.SetupSignalHandler(): the stop signal arrives
Cancel ==
    /\ ProcessAlive
    /\ ~cancelled
    /\ cancelled' = TRUE
    /\ atCancel' = [fired |-> TRUE, pc |-> pc, attempts |-> attempts,
                    remoteCalls |-> remoteCalls, writes |-> writes,
                    timer |-> timer]
    /\ UNCHANGED << pc, proc, envVars, observed, authVars, fileVars, attempts,
                    lastLog, cycleVars, watcherVars >>

\* the service-account token is rotated, removed or restored
RotateJWT ==
    /\ ProcessAlive
    /\ pc \in {"loop", "auth_call", "write", "writing", "new_watcher",
               "watching", "sel_ok", "backoff"}
    /\ \E j \in (JWTValues \cup {JWTMissing}) \ {jwtFile} : jwtFile' = j
    /\ UNCHANGED << pc, cfg, cancelVars, proc, observed, authVars, fileVars,
                    attempts, lastLog, cycleVars, watcherVars >>

\* a pause that runs on although ctx.Done() is closed
Tick_IgnoresCancel ==
    /\ ProcessAlive
    /\ pc = "backoff"
    /\ timer < BackoffSeconds
    /\ timer' = timer + 1
    /\ UNCHANGED << pc, envVars, cancelVars, proc, observed, authVars, fileVars,
                    attempts, lastLog, cycle, cycleErr, pauses, watcherVars >>

\* one second of the backoff pause passes. The select at line 105 stays
\* blocked only while neither channel is ready: once ctx.Done() is closed
\* the goroutine is woken (or never blocks) and the pause is over
Tick ==
    /\ ProcessAlive
    /\ pc = "backoff"
    /\ ~cancelled
    /\ timer < BackoffSeconds
    /\ timer' = timer + 1
    /\ UNCHANGED << pc, envVars, cancelVars, proc, observed, authVars, fileVars,
                    attempts, lastLog, cycle, cycleErr, pauses, watcherVars >>

(* ---------------------------------------------------------------------- *)
(* Specifications                                                         *)
(* ---------------------------------------------------------------------- *)

Next ==
    \/ Main_Start
    \/ Main_Skip
    \/ Main_ManagerStops
    \/ AutoRenewal_ReadJWT
    \/ Authenticate_Return
    \/ WriteToken_Begin
    \/ WriteToken_End
    \/ NewLifetimeWatcher
    \/ Watch_CtxDone
    \/ Watch_Done
    \/ Watch_Renew
    \/ SelectOk_CtxDone
    \/ SelectOk_Default
    \/ Backoff_CtxDone
    \/ Backoff_Timer
    \/ Watcher_Renewed
    \/ Watcher_Finish
    \/ Cancel
    \/ RotateJWT
    \/ Tick

Spec == Init /\ [][Next]_vars

\* goroutine scheduling and the runtime timer: a step of the supervisor that
\* can be taken is taken, and the clock of a pending timer advances
FairSpec ==
    /\ Spec
    /\ WF_vars(Tick)
    /\ WF_vars(Backoff_Timer)
    /\ WF_vars(AutoRenewal_ReadJWT)

\* FairSpec, and besides: the remote call and the file write return, the
\* non-blocking steps of autoRenewal are taken, and a select whose
\* ctx.Done() case stays ready takes it in the end (Go picks among the
\* ready cases at random)
LiveSpec ==
    /\ FairSpec
    /\ WF_vars(Authenticate_Return)
    /\ WF_vars(WriteToken_Begin)
    /\ WF_vars(WriteToken_End)
    /\ WF_vars(NewLifetimeWatcher)
    /\ WF_vars(Watch_CtxDone)
    /\ WF_vars(SelectOk_CtxDone)
    /\ WF_vars(Backoff_CtxDone)

(* ---------------------------------------------------------------------- *)
(* Properties                                                             *)
(* ---------------------------------------------------------------------- *)

\* autoRenewal has returned at least once and the next call is about to start
NextAttemptStarts == pc = "loop" /\ cycle # "none"

\* C1: when the next authentication attempt starts, a cycle that ended with
\* a terminal notification without error was followed by no pause at all, and
\* a cycle that ended with an error (authentication, persistence, watcher
\* creation, renewal) was followed by exactly one full 30-second pause.
C1_PauseMatchesOutcome ==
    NextAttemptStarts =>
        /\ (cycle = "ok" => cycleErr = "none" /\ pauses = 0 /\ timer = 0)
        /\ (cycle = "err" => /\ cycleErr \in {"auth", "write", "watcher", "renew"}
                             /\ pauses = 1
                             /\ timer >= BackoffSeconds)
        /\ (doneCh = "read" /\ cycleErr = "none" => cycle = "ok")
        /\ (cycleErr # "none" => cycle = "err")

\* a renewal error was followed by one pause and the next attempt is starting
C1_Witness ==
    /\ NextAttemptStarts
    /\ ~cancelled
    /\ cycleErr = "renew"
    /\ pauses = 1
    /\ timer = BackoffSeconds

\* C2: once the loop has settled in the lease-watch wait, the token file
\* holds the credential of the most recent successful authentication, which
\* is the one of the current cycle, whatever failed before.
C2_FileIsLatestCredential ==
    pc = "watching" =>
        /\ lastCred # NoSecret
        /\ lastCred = attempts
        /\ tokenFile = lastCred

\* second cycle watching after a first cycle that authenticated and wrote
\* but never got a watcher
C2_Witness ==
    /\ pc = "watching"
    /\ attempts = 2
    /\ remoteCalls = 2
    /\ writes = 2
    /\ wStarted = 1
    /\ tokenFile = 2

\* C3: when the stop signal fired before the first authentication attempt,
\* no authentication request is sent and the token file is never written.
C3_NothingAfterEarlyCancel ==
    (atCancel.fired /\ atCancel.attempts = 0) =>
        /\ remoteCalls = 0
        /\ writes = 0

\* C4: when the stop signal fired while the supervisor was blocked in the
\* remote call, the file write, the watcher select or the backoff select, no
\* request and no write is started after it.
C4_NothingAfterCancelWhileBlocked ==
    (atCancel.fired /\ atCancel.pc \in {"auth_call", "writing", "watching", "backoff"}) =>
        /\ remoteCalls = atCancel.remoteCalls
        /\ writes = atCancel.writes

\* C5: once a <-ctx.Done() branch was taken, no step starts an attempt,
\* sends a request or writes the file, and the only move left to the
\* supervisor is the plain return of StartAutoRenew.
C5_UnwindAfterObservedCancel ==
    [][observed =>
          /\ attempts' = attempts
          /\ remoteCalls' = remoteCalls
          /\ writes' = writes
          /\ wStarted' = wStarted
          /\ pc \in {"sel_ok", "done"}
          /\ pc' \in {pc, "done"}]_vars

\* cancellation was seen in the watcher select and StartAutoRenew returned
C5_Witness ==
    /\ observed
    /\ pc = "done"
    /\ cycle = "ok"
    /\ wStopCalls = 1
    /\ doneCh # "read"

\* C6 as stated: after a failed authentication the next attempt starts no
\* sooner than 30 seconds later, and unless the stop signal fires it does
\* start. It fails when mgr.Start returns an error during the pause:
\* os.Exit(1) ends the process with no signal and no further attempt.
C6_PacedRetry ==
    /\ [](pc = "loop" /\ cycleErr = "auth" => pauses = 1 /\ timer >= BackoffSeconds)
    /\ \A n \in 1..(MaxAttempts - 1) :
          (pc = "backoff" /\ cycleErr = "auth" /\ attempts = n)
              ~> (cancelled \/ attempts = n + 1)

\* C6: after a failed authentication the next attempt starts no sooner than
\* 30 seconds later, and it does start unless the stop signal fires or the
\* process ends first.
C6_PacedRetryWhileProcessRuns ==
    /\ [](pc = "loop" /\ cycleErr = "auth" => pauses = 1 /\ timer >= BackoffSeconds)
    /\ \A n \in 1..(MaxAttempts - 1) :
          (pc = "backoff" /\ cycleErr = "auth" /\ attempts = n)
              ~> (cancelled \/ attempts = n + 1 \/ proc # "running")

\* the second attempt is under way after the first one failed
C6_Witness ==
    /\ pc = "auth_call"
    /\ attempts = 2
    /\ cycleErr = "auth"
    /\ remoteCalls = 2
    /\ timer = BackoffSeconds
    /\ ~cancelled

\* C7: the process survives every outcome, StartAutoRenew returns only
\* after the stop signal, and every cycle that ended with an error logged it.
C7_ErrorsLoggedNeverFatal ==
    /\ pc # "panicked"
    /\ (pc = "done" => cancelled)
    /\ (pc = "backoff" => lastLog \in ErrorLogs)

\* C8: at most one watcher goroutine is alive, and none is alive while the
\* supervisor is between the start of an attempt and the start of its watcher.
C8_OneWatcherNoOverlap ==
    /\ activeTasks <= 1
    /\ (pc \in {"loop", "auth_call", "write", "writing", "new_watcher"}
            => activeTasks = 0)

\* a second authentication is in flight after a first watcher ran
C8_Witness ==
    /\ pc = "auth_call"
    /\ wStarted = 1
    /\ wTask = "finished"
    /\ activeTasks = 0

\* C9: outside the watcher select every started watcher has been stopped;
\* inside it only the current one has not.
C9_EveryWatcherStopped ==
    /\ (pc # "watching" => wStopCalls = wStarted)
    /\ (pc = "watching" => wStopCalls = wStarted - 1 /\ ~wStopped)

\* two watchers ended, one by a terminal notification, one by cancellation
C9_Witness ==
    /\ pc = "done"
    /\ wStarted = 2
    /\ wStopCalls = 2
    /\ wStopped
    /\ wTask = "running"

\* C10: the file is written only with the secret this cycle's authenticate
\* returned, and a watcher is started only when the file holds that secret
\* as the result of this cycle's write.
C10_StepsInOrder ==
    [][/\ (writes' # writes => initial = attempts /\ lastCred = attempts)
       /\ (wStarted' # wStarted =>
              /\ initial = attempts
              /\ tokenFile = initial
              /\ lastLog = LogTokenUpdated)]_vars

\* a watcher was started in the second cycle, the first having failed early
C10_Witness ==
    /\ pc = "watching"
    /\ attempts = 2
    /\ wStarted = 1
    /\ writes = 1
    /\ tokenFile = 2

\* C11: an attempt that finds the identity-assertion file unreadable sends
\* no request, leaves the token file and the watchers alone and ends in the
\* backoff select; nothing is sent, written or started during that pause,
\* and the next attempt starts only after the full 30 seconds.
C11_UnreadableIdentity ==
    /\ [][(attempts' = attempts + 1 /\ jwtFile = JWTMissing) =>
             /\ remoteCalls' = remoteCalls
             /\ tokenFile' = tokenFile
             /\ writes' = writes
             /\ wStarted' = wStarted
             /\ lastLog' = LogAuthFailed
             /\ pc' = "backoff"
             /\ cycleErr' = "auth"
             /\ timer' = 0]_vars
    /\ [][(pc = "backoff" /\ cycleErr = "auth") =>
             /\ remoteCalls' = remoteCalls
             /\ tokenFile' = tokenFile
             /\ writes' = writes
             /\ wStarted' = wStarted]_vars
    /\ [](pc = "loop" /\ cycleErr = "auth" /\ remoteCalls = 0
             => pauses = 1 /\ timer >= BackoffSeconds /\ tokenFile = NoSecret)

\* the first attempt found no identity file and the second is about to start
C11_Witness ==
    /\ pc = "loop"
    /\ attempts = 1
    /\ remoteCalls = 0
    /\ cycleErr = "auth"
    /\ pauses = 1
    /\ tokenFile = NoSecret

\* C12: when the stop signal fires during the backoff pause (the timer has
\* not run out), the pause does not go on, no further attempt starts and the
\* supervisor can only return.
C12_CancelEndsBackoff ==
    (atCancel.fired /\ atCancel.pc = "backoff" /\ atCancel.timer < BackoffSeconds) =>
        /\ pc \in {"backoff", "done"}
        /\ timer = atCancel.timer
        /\ attempts = atCancel.attempts
        /\ remoteCalls = atCancel.remoteCalls
        /\ writes = atCancel.writes

\* StartAutoRenew returned from a pause that was cut short
C12_Witness ==
    /\ pc = "done"
    /\ atCancel.pc = "backoff"
    /\ atCancel.timer = 7
    /\ timer = 7
    /\ attempts = 1

\* C13: taking a renewal notification only logs it: the token file, the
\* counters of attempts, requests and writes, the watcher and the position
\* of the supervisor in the select loop stay as they are.
C13_RenewalOnlyLogs ==
    [][(pc = "watching" /\ renewCh' < renewCh) =>
          /\ lastLog' = LogRenewed
          /\ pc' = "watching"
          /\ tokenFile' = tokenFile
          /\ writes' = writes
          /\ attempts' = attempts
          /\ remoteCalls' = remoteCalls
          /\ initial' = initial
          /\ wStopped' = wStopped
          /\ wStopCalls' = wStopCalls
          /\ wStarted' = wStarted
          /\ wTask' = wTask
          /\ doneCh' = doneCh
          /\ cycle' = cycle]_vars

\* a renewal was logged and the supervisor still watches the same watcher
C13_Witness ==
    /\ pc = "watching"
    /\ lastLog = LogRenewed
    /\ renewCh = 0
    /\ wTask = "running"
    /\ ~wStopped
    /\ tokenFile = attempts

\* C14: a writeToken error (home directory or file write) ends the cycle
\* the way an authentication error does: logged, no second write, no
\* watcher, the backoff select with a fresh timer, and the next thing after
\* the full pause is a new call of autoRenewal.
C14_WriteFailureLikeAuthFailure ==
    /\ [][(\/ pc = "writing" /\ pc' # "writing" /\ tokenFile' # initial
           \/ pc = "write" /\ pc' \notin {"write", "writing", "panicked"}) =>
             /\ pc' = "backoff"
             /\ lastLog' = LogWriteFailed
             /\ cycle' = "err"
             /\ cycleErr' = "write"
             /\ timer' = 0
             /\ pauses' = 0
             /\ writes' = writes
             /\ wStarted' = wStarted]_vars
    /\ [][(pc = "backoff" /\ cycleErr = "write") =>
             /\ writes' = writes
             /\ wStarted' = wStarted
             /\ remoteCalls' = remoteCalls
             /\ pc' \in {"backoff", "loop", "done"}]_vars
    /\ [](pc = "loop" /\ cycleErr = "write"
             => cycle = "err" /\ pauses = 1 /\ timer >= BackoffSeconds)

\* the file write of the first cycle failed and the pause after it is over
C14_Witness ==
    /\ pc = "loop"
    /\ cycleErr = "write"
    /\ attempts = 1
    /\ writes = 1
    /\ wStarted = 0
    /\ pauses = 1
    /\ tokenFile = Truncated

\* C15: once the terminal notification of a watcher has been read the
\* supervisor is out of the select loop and that watcher is stopped; it is
\* read once, and the select loop is entered again only with a watcher newly
\* created from the secret of the cycle then running.
C15_TerminalConsumedOnce ==
    /\ [](doneCh = "read" => pc # "watching" /\ wStopped)
    /\ [][(doneCh' = "read" /\ doneCh # "read") =>
             pc = "watching" /\ pc' \in {"sel_ok", "backoff"}]_vars
    /\ [][(pc' = "watching" /\ pc # "watching") =>
             /\ pc = "new_watcher"
             /\ wStarted' = wStarted + 1
             /\ doneCh' = "empty"
             /\ ~wStopped'
             /\ initial = attempts
             /\ wStarted < attempts]_vars

\* a second watcher is being watched after the first one ended
C15_Witness ==
    /\ pc = "watching"
    /\ wStarted = 2
    /\ wStopCalls = 1
    /\ doneCh = "empty"
    /\ attempts = 2

\* C16: every call of autoRenewal reads the identity file anew; when it is
\* readable exactly one request goes out and carries the value the file has
\* at that moment; no other step sends a request.
C16_OneRequestWithCurrentJWT ==
    /\ [][attempts' = attempts + 1 =>
             IF jwtFile = JWTMissing
               THEN remoteCalls' = remoteCalls /\ reqJWT' = reqJWT
               ELSE /\ remoteCalls' = remoteCalls + 1
                    /\ reqJWT' = jwtFile
                    /\ pc' = "auth_call"]_vars
    /\ [][(remoteCalls' # remoteCalls \/ reqJWT' # reqJWT) =>
             attempts' = attempts + 1]_vars
    /\ [](remoteCalls <= attempts)
    /\ [](pc = "auth_call" => reqJWT \in JWTValues)

\* the second request is in flight and carries the file's present value
C16_Witness ==
    /\ pc = "auth_call"
    /\ attempts = 2
    /\ remoteCalls = 2
    /\ reqJWT = "jwtB"
    /\ jwtFile = "jwtB"

\* C17: while a watcher goroutine is alive, the token file holds the client
\* token of the secret that watcher was created with, which is the one of
\* the most recent successful authentication.
C17_FileMatchesWatchedLease ==
    wTask = "running" =>
        /\ initial \notin {NoSecret, NoAuthSecret}
        /\ tokenFile = initial
        /\ initial = lastCred

\* the watcher of the second lease is still alive after StartAutoRenew
\* returned
C17_Witness ==
    /\ wTask = "running"
    /\ pc = "done"
    /\ wStarted = 2
    /\ tokenFile = 2

\* C18: an error of NewLifetimeWatcher ends the cycle with that error: no
\* watcher is started or stopped, the file keeps the token just written,
\* and the next call of autoRenewal comes after the full 30-second pause.
C18_WatcherCreationFailure ==
    /\ [][(pc = "new_watcher" /\ pc' \notin {"new_watcher", "watching"}) =>
             /\ pc' = "backoff"
             /\ cycle' = "err"
             /\ cycleErr' = "watcher"
             /\ timer' = 0
             /\ pauses' = 0
             /\ wStarted' = wStarted
             /\ wStopCalls' = wStopCalls
             /\ activeTasks' = activeTasks
             /\ tokenFile' = tokenFile
             /\ tokenFile = initial]_vars
    /\ [][(pc = "backoff" /\ cycleErr = "watcher") =>
             /\ tokenFile' = tokenFile
             /\ wStarted' = wStarted
             /\ wStopCalls' = wStopCalls
             /\ remoteCalls' = remoteCalls]_vars
    /\ [](pc \in {"backoff", "loop"} /\ cycleErr = "watcher"
             => tokenFile = lastCred /\ tokenFile = attempts)
    /\ [](pc = "loop" /\ cycleErr = "watcher"
             => pauses = 1 /\ timer >= BackoffSeconds)

\* the watcher of the first lease could not be created; the pause is over
C18_Witness ==
    /\ pc = "loop"
    /\ cycleErr = "watcher"
    /\ attempts = 1
    /\ tokenFile = 1
    /\ wStarted = 0
    /\ wStopCalls = 0
    /\ pauses = 1

\* StartAutoRenew is running
SupervisorRunning ==
    pc \in {"loop", "auth_call", "write", "writing", "new_watcher",
            "watching", "sel_ok", "backoff"}

\* C19 as stated: once the stop signal has fired, a running StartAutoRenew
\* returns in the end, wherever it is (remote call, file write, watcher
\* select with renewals coming in, backoff), given that the remote call and
\* the write return; a writeToken that panics does not return and ends the
\* process. (An attempt begun after the signal needs room below
\* MaxAttempts.) It fails when main returns from mgr.Start before the
\* goroutine has reached a select: the process ends and StartAutoRenew
\* never returns.
C19_ReturnsAfterCancel ==
    (cancelled /\ SupervisorRunning /\ attempts < MaxAttempts)
        ~> (pc = "done" \/ pc = "panicked")

\* C19: once the stop signal has fired, a running StartAutoRenew returns in
\* the end, given that the remote call and the write return, unless the
\* process ends first (main returns or exits, or writeToken panics).
C19_ReturnsOrProcessEnds ==
    (cancelled /\ SupervisorRunning /\ attempts < MaxAttempts)
        ~> (pc = "done" \/ pc = "panicked" \/ proc # "running")

\* the signal came in the watcher select, a renewal was logged after it,
\* and StartAutoRenew has returned
C19_Witness ==
    /\ pc = "done"
    /\ atCancel.pc = "watching"
    /\ lastLog = LogRenewed
    /\ wTask = "running"
    /\ observed
    /\ proc = "running"

\* the four vault flags of main are all non-empty
AllFlagsSet ==
    /\ cfg.role # ""
    /\ cfg.server # ""
    /\ cfg.tokenPath # ""
    /\ cfg.auth # ""

\* C20: StartAutoRenew is launched from main only, once, and only with all
\* four flags set; with any of them empty there is never an attempt, a
\* request, a write or a watcher.
C20_StartedOnlyWhenConfigured ==
    /\ [](~AllFlagsSet =>
             /\ pc \in {"main", "not_started"}
             /\ attempts = 0
             /\ remoteCalls = 0
             /\ writes = 0
             /\ wStarted = 0
             /\ tokenFile = NoSecret)
    /\ [][(pc = "main" /\ pc' # "main") =>
             IF AllFlagsSet THEN pc' \in {"loop", "exited"}
                            ELSE pc' = "not_started"]_vars
    /\ [][pc # "main" => pc' # "main"]_vars
    /\ [][(pc' = "loop" /\ pc # "loop") =>
             \/ pc = "main" /\ attempts = 0
             \/ pc \in {"sel_ok", "backoff"} /\ attempts > 0]_vars

\* three flags set, the auth path empty: main went on without the
\* authenticator, and nothing happened up to the stop signal
C20_Witness ==
    /\ pc = "not_started"
    /\ cfg = [role |-> "set", server |-> "set", tokenPath |-> "set", auth |-> ""]
    /\ cancelled
    /\ attempts = 0
    /\ writes = 0

====
